---------------------------- MODULE Spec2Model ----------------------------
(***************************************************************************)
(* A model of the quote engine of quote-api (src/src/quote-engine.js):     *)
(* the pricing functions, parameter validation, quote signing, the reads   *)
(* of the staking contract and the getQuote request pipeline.              *)
(***************************************************************************)
EXTENDS Integers, Sequences, FiniteSets, TLC

(***************************************************************************)
(* decimal.js numbers.  A Decimal is a coefficient and a power of ten,     *)
(* value m * 10^e, kept without trailing zeros; NaN is a value of its own. *)
(* Every arithmetic operation rounds its result to Precision significant   *)
(* digits, half away from zero (decimal.js: precision 20, ROUND_HALF_UP,   *)
(* never reconfigured by the engine).  The constructor does not round.     *)
(***************************************************************************)
Precision == 3

RECURSIVE Pow10(_)
Pow10(n) == IF n <= 0 THEN 1 ELSE 10 * Pow10(n - 1)

Abs(n) == IF n < 0 THEN -n ELSE n

Sign(n) == IF n < 0 THEN -1 ELSE 1

RECURSIVE Digits(_)
Digits(n) == IF Abs(n) < 10 THEN 1 ELSE 1 + Digits(Abs(n) \div 10)

NaN == [nan |-> TRUE]

IsNaN(a) == "nan" \in DOMAIN a

RECURSIVE Norm(_, _)
Norm(m, e) ==
  IF m = 0 THEN [m |-> 0, e |-> 0]
  ELSE IF m % 10 = 0 THEN Norm(m \div 10, e + 1)
  ELSE [m |-> m, e |-> e]

\* new Decimal(<integer n>) and Decimal('<m>e<e>'): exact, whatever the length
Dec(m, e) == Norm(m, e)

Zero == Dec(0, 0)

One == Dec(1, 0)

\* finalise(x, precision, ROUND_HALF_UP): keep sd significant digits of m * 10^e
RoundTo(m, e, sd) ==
  LET k == Digits(m) - sd
  IN  IF k <= 0 THEN Norm(m, e)
      ELSE LET q == Abs(m) \div Pow10(k)
               r == Abs(m) % Pow10(k)
               up == IF 2 * r >= Pow10(k) THEN 1 ELSE 0
           IN  Norm(Sign(m) * (q + up), e + k)

Round(m, e) == RoundTo(m, e, Precision)

DecMul(a, b) ==
  IF IsNaN(a) \/ IsNaN(b) THEN NaN ELSE Round(a.m * b.m, a.e + b.e)

\* the digits of n / d, one at a time, until the quotient has Precision + 1
\* of them (or the division is exact); k counts the digits after the point
RECURSIVE LongDiv(_, _, _, _)
LongDiv(q, r, d, k) ==
  IF r = 0 \/ q >= Pow10(Precision)
    THEN [q |-> q, k |-> k]
    ELSE LongDiv(10 * q + ((10 * r) \div d), (10 * r) % d, d, k + 1)

DecDiv(a, b) ==
  IF IsNaN(a) \/ IsNaN(b) \/ b.m = 0 THEN NaN
  ELSE LET n == Abs(a.m)
           d == Abs(b.m)
           l == LongDiv(n \div d, n % d, d, 0)
       IN  Round(Sign(a.m) * Sign(b.m) * l.q, a.e - b.e - l.k)

\* a + b, exact (the coefficients on the smaller exponent), then rounded
DecAdd(a, b) ==
  IF IsNaN(a) \/ IsNaN(b) THEN NaN
  ELSE IF a.m = 0 THEN Round(b.m, b.e)
  ELSE IF b.m = 0 THEN Round(a.m, a.e)
  ELSE LET e == IF a.e < b.e THEN a.e ELSE b.e
       IN  Round(a.m * Pow10(a.e - e) + b.m * Pow10(b.e - e), e)

DecNeg(a) == IF IsNaN(a) THEN NaN ELSE [m |-> -a.m, e |-> a.e]

DecSub(a, b) == DecAdd(a, DecNeg(b))

\* the position of the leading digit: a number's order of magnitude
Mag(a) == a.e + Digits(a.m)

\* cmp: -1, 0, 1; the comparisons of decimal.js are false on NaN
Cmp(a, b) ==
  IF a = b THEN 0
  ELSE IF a.m <= 0 /\ b.m >= 0 THEN -1
  ELSE IF a.m >= 0 /\ b.m <= 0 THEN 1
  ELSE LET s == Sign(a.m)
           e == IF a.e < b.e THEN a.e ELSE b.e
       IN  IF Mag(a) # Mag(b)
             THEN (IF Mag(a) < Mag(b) THEN -s ELSE s)
             ELSE (IF a.m * Pow10(a.e - e) < b.m * Pow10(b.e - e) THEN -1 ELSE 1)

DecEq(a, b) == ~IsNaN(a) /\ ~IsNaN(b) /\ Cmp(a, b) = 0

DecLt(a, b) == ~IsNaN(a) /\ ~IsNaN(b) /\ Cmp(a, b) < 0

DecLte(a, b) == ~IsNaN(a) /\ ~IsNaN(b) /\ Cmp(a, b) <= 0

DecGt(a, b) == ~IsNaN(a) /\ ~IsNaN(b) /\ Cmp(a, b) > 0

\* floor(): the largest integer not above the value
DecFloor(a) ==
  IF IsNaN(a) THEN NaN
  ELSE IF a.e >= 0 THEN a
  ELSE LET p == Pow10(-a.e)
           q == Abs(a.m) \div p
       IN  IF a.m >= 0 THEN Norm(q, 0) ELSE Norm(-(q + 1), 0)

\* a * b without rounding: the exact product, used to compare with what the
\* code computed
ExactMul(a, b) == Norm(a.m * b.m, a.e + b.e)

(***************************************************************************)
(* The constants of the engine.                                            *)
(***************************************************************************)
DAYS_PER_YEAR == Dec(36525, -2)

CONTRACT_CAPACITY_LIMIT_PERCENT == Dec(2, -1)

COVER_PRICE_SURPLUS_MARGIN == Dec(3, -1)

\* the literal '1e18': wei per unit
E18 == Dec(1, 18)

\* utils.min and utils.max of two Decimals
min(a, b) == IF DecLt(a, b) THEN a ELSE b

max(a, b) == IF DecGt(a, b) THEN a ELSE b

(***************************************************************************)
(* calculateCapacity: min(staked NXM x NXM price, 20% of the MCR).         *)
(***************************************************************************)
calculateCapacity(stakedNxm, nxmPriceEth, minCapETH) ==
  LET maxGlobalCapacityPerContract == DecMul(minCapETH, CONTRACT_CAPACITY_LIMIT_PERCENT)
      stakedNxmEthValue == DecDiv(DecMul(stakedNxm, nxmPriceEth), E18)
  IN  min(stakedNxmEthValue, maxGlobalCapacityPerContract)

(***************************************************************************)
(* calculatePrice: amount x risk / 100 x (1 + margin) / 365.25 x period.   *)
(***************************************************************************)
calculatePrice(coverAmount, risk, surplusMargin, coverPeriod) ==
  LET surplusMultiplier == DecAdd(surplusMargin, One)
      pricePerDay ==
        DecDiv(DecMul(DecDiv(DecMul(coverAmount, risk), Dec(100, 0)),
                      surplusMultiplier),
               DAYS_PER_YEAR)
  IN  DecMul(pricePerDay, Dec(coverPeriod, 0))

(***************************************************************************)
(* calculateRisk.  x.pow(1/7) is the seventh root of x to Precision        *)
(* digits: the largest r of Precision digits whose seventh power (taken    *)
(* with the same arithmetic) does not exceed x.                            *)
(***************************************************************************)
Pow7(r) == DecMul(DecMul(DecMul(r, r), DecMul(r, r)), DecMul(DecMul(r, r), r))

\* the largest coefficient m in lo..hi with (m * 10^e)^7 <= x
RECURSIVE RootSearch(_, _, _, _)
RootSearch(lo, hi, e, x) ==
  IF lo >= hi THEN lo
  ELSE LET mid == (lo + hi + 1) \div 2
       IN  IF DecLte(Pow7(Dec(mid, e)), x)
             THEN RootSearch(mid, hi, e, x)
             ELSE RootSearch(lo, mid - 1, e, x)

pow7th(x) ==
  IF IsNaN(x) \/ x.m < 0 THEN NaN
  ELSE IF x.m = 0 THEN Zero
  ELSE LET k == -((-Mag(x)) \div 7)
           e == k - Precision
       IN  Dec(RootSearch(Pow10(Precision - 1), Pow10(Precision) - 1, e, x), e)

\* calculateRisk without the floor of STAKED_LOW_RISK_COST
calculateRiskUncapped(netStakedNxm) ==
  LET STAKED_HIGH_RISK_COST == Dec(100, 0)
      LOW_RISK_COST_LIMIT_NXM == DecMul(Dec(200000, 0), E18)
  IN  DecMul(STAKED_HIGH_RISK_COST,
             DecSub(One, pow7th(DecDiv(netStakedNxm, LOW_RISK_COST_LIMIT_NXM))))

calculateRisk(netStakedNxm) ==
  LET STAKED_HIGH_RISK_COST == Dec(100, 0)
      LOW_RISK_COST_LIMIT_NXM == DecMul(Dec(200000, 0), E18)
      STAKED_LOW_RISK_COST == Dec(1, 0)
      uncappedRiskCost ==
        DecMul(STAKED_HIGH_RISK_COST,
               DecSub(One, pow7th(DecDiv(netStakedNxm, LOW_RISK_COST_LIMIT_NXM))))
  IN  max(STAKED_LOW_RISK_COST, uncappedRiskCost)

(***************************************************************************)
(* calculateQuote.  Its local values are kept beside the returned quote;   *)
(* now is the Date's getTime(), in milliseconds.                           *)
(***************************************************************************)
\* the expiry rounded down instead of up
ExpiresAtFloor(generatedAt) == (generatedAt + 3600 * 1000) \div 1000

\* Math.ceil(generatedAt / 1000 + 3600)
ExpiresAt(generatedAt) == -((-(generatedAt + 3600 * 1000)) \div 1000)

quoteLocals(requestedCoverAmount, period, coverCurrencyRate, nxmPrice, netStakedNxm, minCapETH) ==
  LET maxCapacity == calculateCapacity(netStakedNxm, nxmPrice, minCapETH)
      requestedCoverAmountInWei == DecMul(requestedCoverAmount, coverCurrencyRate)
      finalCoverAmountInWei == min(maxCapacity, requestedCoverAmountInWei)
      risk == calculateRisk(netStakedNxm)
      quotePriceInWei ==
        calculatePrice(finalCoverAmountInWei, risk, COVER_PRICE_SURPLUS_MARGIN, period)
  IN  [maxCapacity |-> maxCapacity,
       requestedCoverAmountInWei |-> requestedCoverAmountInWei,
       finalCoverAmountInWei |-> finalCoverAmountInWei,
       risk |-> risk,
       quotePriceInWei |-> quotePriceInWei]

\* calculateQuote with the zero test written as lte(0)
calculateQuoteLte(requestedCoverAmount, period, currency, coverCurrencyRate, nxmPrice, netStakedNxm, minCapETH, now) ==
  LET generatedAt == now
      expiresAt == ExpiresAt(generatedAt)
      l == quoteLocals(requestedCoverAmount, period, coverCurrencyRate, nxmPrice,
                       netStakedNxm, minCapETH)
  IN  IF DecLte(netStakedNxm, Zero)
        THEN [error |-> "Uncoverable", generatedAt |-> generatedAt, expiresAt |-> expiresAt]
        ELSE [currency |-> currency,
              period |-> period,
              amount |-> DecDiv(l.finalCoverAmountInWei, coverCurrencyRate),
              price |-> DecMul(DecDiv(l.quotePriceInWei, coverCurrencyRate), E18),
              priceInNXM |-> DecMul(DecDiv(l.quotePriceInWei, nxmPrice), E18),
              expiresAt |-> expiresAt,
              generatedAt |-> generatedAt]

calculateQuote(requestedCoverAmount, period, currency, coverCurrencyRate, nxmPrice, netStakedNxm, minCapETH, now) ==
  LET generatedAt == now
      expiresAt == ExpiresAt(generatedAt)
      l == quoteLocals(requestedCoverAmount, period, coverCurrencyRate, nxmPrice,
                       netStakedNxm, minCapETH)
  IN  IF DecEq(netStakedNxm, Zero)
        THEN [error |-> "Uncoverable", generatedAt |-> generatedAt, expiresAt |-> expiresAt]
        ELSE [currency |-> currency,
              period |-> period,
              amount |-> DecDiv(l.finalCoverAmountInWei, coverCurrencyRate),
              price |-> DecMul(DecDiv(l.quotePriceInWei, coverCurrencyRate), E18),
              priceInNXM |-> DecMul(DecDiv(l.quotePriceInWei, nxmPrice), E18),
              expiresAt |-> expiresAt,
              generatedAt |-> generatedAt]

(***************************************************************************)
(* Strings are sequences of characters, so that the regular expressions,   *)
(* the case conversions and the parsers act on what they read.             *)
(***************************************************************************)
DigitChars == {"0", "1", "2", "3", "4", "5", "6", "7", "8", "9"}

HexLower == {"a", "b", "c", "d", "e", "f"}

HexUpper == {"A", "B", "C", "D", "E", "F"}

DigitVal(c) ==
  CASE c = "0" -> 0 [] c = "1" -> 1 [] c = "2" -> 2 [] c = "3" -> 3 [] c = "4" -> 4
    [] c = "5" -> 5 [] c = "6" -> 6 [] c = "7" -> 7 [] c = "8" -> 8 [] c = "9" -> 9

LowerChar(c) ==
  CASE c = "A" -> "a" [] c = "B" -> "b" [] c = "C" -> "c" [] c = "D" -> "d"
    [] c = "E" -> "e" [] c = "F" -> "f" [] c = "X" -> "x" [] c = "T" -> "t"
    [] c = "H" -> "h" [] c = "I" -> "i" [] OTHER -> c

UpperChar(c) ==
  CASE c = "a" -> "A" [] c = "b" -> "B" [] c = "c" -> "C" [] c = "d" -> "D"
    [] c = "e" -> "E" [] c = "f" -> "F" [] c = "x" -> "X" [] c = "t" -> "T"
    [] c = "h" -> "H" [] c = "i" -> "I" [] OTHER -> c

toLowerCase(str) == [i \in 1..Len(str) |-> LowerChar(str[i])]

toUpperCase(str) == [i \in 1..Len(str) |-> UpperChar(str[i])]

\* the digits of str[1..n] read as a number in base ten
RECURSIVE DigitsValue(_, _)
DigitsValue(str, n) ==
  IF n = 0 THEN 0 ELSE 10 * DigitsValue(str, n - 1) + DigitVal(str[n])

\* /^\d+$/
IsDigitString(str) == Len(str) >= 1 /\ \A i \in 1..Len(str) : str[i] \in DigitChars

\* /^0(x|X)[a-fA-F0-9]{40}$/i
IsContractAddress(str) ==
  /\ Len(str) = 42
  /\ str[1] = "0"
  /\ str[2] \in {"x", "X"}
  /\ \A i \in 3..42 : str[i] \in DigitChars \cup HexLower \cup HexUpper

\* the number of leading digits of str
RECURSIVE LeadingDigits(_, _)
LeadingDigits(str, i) ==
  IF i <= Len(str) /\ str[i] \in DigitChars THEN LeadingDigits(str, i + 1) ELSE i - 1

\* parseInt(str): the leading digits; -1 stands for NaN (no leading digit)
parseInt(str) ==
  LET n == LeadingDigits(str, 1)
  IN  IF n = 0 THEN -1 ELSE DigitsValue(str, n)

\* Joi.number() on a string: digits with an optional point and fraction convert
\* to that number; anything else is not a number
JoiNumber(str) ==
  LET n == LeadingDigits(str, 1)
      frac == IF n + 1 <= Len(str) THEN SubSeq(str, n + 2, Len(str)) ELSE <<>>
  IN  IF n = 0 THEN NaN
      ELSE IF n = Len(str) THEN Dec(DigitsValue(str, n), 0)
      ELSE IF str[n + 1] = "." /\ frac = <<>> THEN Dec(DigitsValue(str, n), 0)
      ELSE IF str[n + 1] = "." /\ IsDigitString(frac)
        THEN Dec(DigitsValue(str, n) * Pow10(Len(frac)) + DigitsValue(frac, Len(frac)),
                 -Len(frac))
      ELSE NaN

\* Decimal(coverAmount) of a digit string
DecimalOfString(str) == Dec(DigitsValue(str, Len(str)), 0)

(***************************************************************************)
(* validateQuoteParameters.  The schema's keys are checked in the order    *)
(* they are declared; Joi's validate() is called without options, and so   *)
(* (abortEarly being on by default) reports the first violation only.      *)
(***************************************************************************)
SchemaKeys == <<"contractAddress", "coverAmount", "currency", "period">>

Violates(key, contractAddress, coverAmount, currency, period) ==
  CASE key = "contractAddress" -> ~IsContractAddress(contractAddress)
    [] key = "coverAmount" -> ~(IsDigitString(coverAmount) /\ Len(coverAmount) >= 1)
    [] key = "currency" -> currency \notin {<<"E", "T", "H">>, <<"D", "A", "I">>}
    [] key = "period" ->
         LET n == JoiNumber(period)
         IN  IsNaN(n) \/ DecLt(n, Dec(30, 0)) \/ DecGt(n, Dec(365, 0))

\* the keys of the schema that the request violates, in schema order
Violations(contractAddress, coverAmount, currency, period) ==
  SelectSeq(SchemaKeys,
            LAMBDA key : Violates(key, contractAddress, coverAmount, currency, period))

Null == [null |-> TRUE]

validateQuoteParameters(contractAddress, coverAmount, currency, period) ==
  LET v == Violations(contractAddress, coverAmount, currency, period)
  IN  IF v = <<>> THEN [error |-> Null]
      ELSE [error |-> [details |-> <<Head(v)>>]]

(***************************************************************************)
(* signQuote.  The message is the tightly packed encoding of orderParts    *)
(* (ethereumjs-abi's soliditySHA3): each part is its canonical type, the   *)
(* bytes that type takes and its value, nothing between the parts.  The    *)
(* hash and the signature are kept symbolic: injective in the message.     *)
(***************************************************************************)
\* Buffer.from(str, 'utf8') of the characters a currency code can hold
CharCode(c) ==
  CASE c = "A" -> 65 [] c = "B" -> 66 [] c = "C" -> 67 [] c = "D" -> 68
    [] c = "E" -> 69 [] c = "H" -> 72 [] c = "I" -> 73 [] c = "T" -> 84
    [] OTHER -> 63

Utf8(str) == [i \in 1..Len(str) |-> CharCode(str[i])]

\* a bytesN value is padded on the right to N bytes
RECURSIVE PadRight(_, _)
PadRight(bytes, n) == IF Len(bytes) >= n THEN bytes ELSE PadRight(Append(bytes, 0), n)

\* decimalToBN: new BN(value.floor().toString())
decimalToBN(value) == DecFloor(value)

\* elementaryName: 'uint' is an alias of 'uint256'
CanonicalType(type) == IF type = "uint" THEN "uint256" ELSE type

TypeBytes(type) ==
  CASE type = "uint256" -> 32 [] type = "uint16" -> 2 [] type = "bytes4" -> 4
    [] type = "address" -> 20

\* orderParts with generatedAt put before expiresAt
orderPartsSwapped(quotationData, quotationContractAddress) ==
  LET currency == Utf8(quotationData.currency)
  IN  << [value |-> decimalToBN(quotationData.amount), type |-> "uint"],
         [value |-> PadRight(currency, 4), type |-> "bytes4"],
         [value |-> quotationData.period, type |-> "uint16"],
         [value |-> quotationData.contract, type |-> "address"],
         [value |-> decimalToBN(quotationData.price), type |-> "uint"],
         [value |-> decimalToBN(quotationData.priceInNXM), type |-> "uint"],
         [value |-> quotationData.generatedAt, type |-> "uint"],
         [value |-> quotationData.expiresAt, type |-> "uint"],
         [value |-> quotationContractAddress, type |-> "address"] >>

orderParts(quotationData, quotationContractAddress) ==
  LET currency == Utf8(quotationData.currency)
  IN  << [value |-> decimalToBN(quotationData.amount), type |-> "uint"],
         [value |-> PadRight(currency, 4), type |-> "bytes4"],
         [value |-> quotationData.period, type |-> "uint16"],
         [value |-> quotationData.contract, type |-> "address"],
         [value |-> decimalToBN(quotationData.price), type |-> "uint"],
         [value |-> decimalToBN(quotationData.priceInNXM), type |-> "uint"],
         [value |-> quotationData.expiresAt, type |-> "uint"],
         [value |-> quotationData.generatedAt, type |-> "uint"],
         [value |-> quotationContractAddress, type |-> "address"] >>

soliditySHA3Input(parts) ==
  [i \in 1..Len(parts) |->
     [type |-> CanonicalType(parts[i].type),
      bytes |-> TypeBytes(CanonicalType(parts[i].type)),
      value |-> parts[i].value]]

\* a quote without currency or amount (the uncoverable quote) makes signQuote
\* throw a TypeError on its first lines; new BN('NaN') throws or yields an
\* unspecified number, with the version of bn.js (strictBN)
SignQuoteThrows(quotationData, strictBN) ==
  \/ "currency" \notin DOMAIN quotationData
  \/ "amount" \notin DOMAIN quotationData
  \/ /\ strictBN
     /\ \/ IsNaN(quotationData.amount)
        \/ IsNaN(quotationData.price)
        \/ IsNaN(quotationData.priceInNXM)

signQuote(quotationData, quotationContractAddress, privateKeyString) ==
  LET message == soliditySHA3Input(orderParts(quotationData, quotationContractAddress))
  IN  [v |-> <<"v", message, privateKeyString>>,
       r |-> <<"r", message, privateKeyString>>,
       s |-> <<"s", message, privateKeyString>>]

(***************************************************************************)
(* The chain.  PooledStaking holds each contract's stake and the queue of  *)
(* unstake requests, a linked list in the order of unstakeAt whose entry 0 *)
(* is the head pointer: its next is the first request not yet processed,   *)
(* 0 when there is none.  Processing a request takes its amount off the    *)
(* stake, moves the head pointer on and deletes the entry.  Every request  *)
(* has emitted an UnstakeRequested event, and the events stay.  Amounts    *)
(* are whole lots of 10^LotExp wei.                                        *)
(***************************************************************************)
ContractA ==
  <<
     "0", "x", "3", "d", "9", "8", "1", "9", "2", "1", "0", "a", "3", "1",
     "b", "4", "9", "6", "1", "b", "3", "0", "e", "f", "5", "4", "b", "e",
     "2", "a", "e", "d", "7", "9", "b", "9", "c", "9", "c", "d", "3", "b" >>

\* the same address as the caller may write it, in mixed case
ContractAMixed ==
  <<
     "0", "x", "3", "d", "9", "8", "1", "9", "2", "1", "0", "A", "3", "1",
     "b", "4", "9", "6", "1", "b", "3", "0", "E", "F", "5", "4", "b", "E",
     "2", "a", "e", "D", "7", "9", "B", "9", "c", "9", "C", "d", "3", "B" >>

ContractB ==
  <<
     "0", "x", "5", "1", "0", "4", "2", "c", "4", "d", "8", "9", "3", "6",
     "a", "7", "7", "6", "4", "d", "1", "8", "3", "7", "0", "a", "6", "a",
     "0", "7", "6", "2", "b", "8", "6", "0", "b", "b", "8", "e", "0", "7" >>

\* one character short of an address
NotAnAddress == SubSeq(ContractA, 1, 41)

\* the contracts staked on, and the address of each
Contracts == {"A", "B"}

AddressOf(contract) == IF contract = "A" THEN ContractA ELSE ContractB

MaxStake == 2

MaxRequests == 2

LotExp == 21

\* a BN amount of the chain as a Decimal: Decimal(bn.toString())
DecimalOfBN(lots) == Dec(lots, LotExp)

VARIABLES
  stake,          \* PooledStaking.contractStake, per contract, in lots
  unstakeLog,     \* every unstake request made, in queue order: the events
  processed,      \* how many requests of the queue have been processed
  pc,             \* where getQuote stands: idle, rate, price, net, mcr, done, failed
  req,            \* the arguments of getQuote
  loc,            \* the local values of getQuote
  net,            \* the three concurrent reads of getNetStakedNxm
  reads,          \* how often each read of the gateway has been issued
  calls,          \* the engine's functions getQuote has invoked, in order
  signedMessage,  \* the packed message signQuote has hashed and signed
  outcome,        \* what getQuote returned or threw
  chainChanged,   \* the chain has changed since getNetStakedNxm was called
  fn,             \* the pure function applied (none before)
  args,           \* the values it is applied to
  ret,            \* what it returned
  locals          \* calculateQuote's local values

chainVars == <<stake, unstakeLog, processed>>

quoteVars == <<pc, req, loc, net, reads, calls, signedMessage, outcome, chainChanged>>

calcVars == <<fn, args, ret, locals>>

vars == <<stake, unstakeLog, processed, pc, req, loc, net, reads, calls,
          signedMessage, outcome, chainChanged, fn, args, ret, locals>>

ReadKinds ==
  {"latestAnswer", "getTokenPrice", "contractStake", "unstakeRequests(0)",
   "unstakeRequests(next)", "getBlock", "getPastEvents", "getLastMCREther",
   "QT.address"}

RECURSIVE SumAmounts(_)
SumAmounts(requests) ==
  IF requests = <<>> THEN 0 ELSE Head(requests).amount + SumAmounts(Tail(requests))

\* the requests of the queue not yet processed
Pending == SubSeq(unstakeLog, processed + 1, Len(unstakeLog))

PendingOf(contractAddress) ==
  SelectSeq(Pending, LAMBDA r : AddressOf(r.contract) = contractAddress)

\* pooledStaking.contractStake(contractAddress)
contractStake(contractAddress) ==
  IF \E c \in Contracts : AddressOf(c) = contractAddress
    THEN stake[CHOOSE c \in Contracts : AddressOf(c) = contractAddress]
    ELSE 0

\* pooledStaking.unstakeRequests(0): the head pointer
headPointer ==
  [amount |-> 0, unstakeAt |-> 0,
   next |-> IF processed < Len(unstakeLog) THEN processed + 1 ELSE 0]

\* pooledStaking.unstakeRequests(id): entry 0 is the head pointer, a processed
\* entry has been deleted and reads as zeros
unstakeRequestAt(id) ==
  IF id = 0 THEN headPointer
  ELSE IF id <= processed THEN [amount |-> 0, unstakeAt |-> 0, next |-> 0]
  ELSE [amount |-> unstakeLog[id].amount, unstakeAt |-> unstakeLog[id].unstakeAt,
        next |-> IF id < Len(unstakeLog) THEN id + 1 ELSE 0]

\* getPastEvents('UnstakeRequested', { fromBlock, filter: { contractAddress } }):
\* the whole history of the model lies after fromBlock
pastUnstakeEvents(contractAddress) ==
  SelectSeq(unstakeLog, LAMBDA r : AddressOf(r.contract) = contractAddress)

\* a contract's stake net of its pending unstake requests: what the chain holds
TrueNetStaked(contractAddress) ==
  contractStake(contractAddress) - SumAmounts(PendingOf(contractAddress))

\* The chain moves at any time.  Between the call of getQuote and the call of
\* getNetStakedNxm, and after getNetStakedNxm has returned, the engine reads
\* nothing of the staking contract, so a move of the chain there is the same
\* move made before the call: requests are made before the call (idle), and
\* are processed before it and while getNetStakedNxm reads (net).

\* a staker asks to unstake amount from contract: the request joins the end of
\* the queue, due at the time of the last request (sameTime) or after it, and
\* a staker cannot ask for more than is staked and not yet asked for
RequestUnstake(contract, amount, sameTime) ==
  /\ pc = "idle"
  /\ Len(unstakeLog) < MaxRequests
  /\ SumAmounts(PendingOf(AddressOf(contract))) + amount <= stake[contract]
  /\ sameTime => unstakeLog # <<>>
  /\ LET last == IF unstakeLog = <<>> THEN 0 ELSE unstakeLog[Len(unstakeLog)].unstakeAt
     IN  unstakeLog' = Append(unstakeLog,
                              [contract |-> contract, amount |-> amount,
                               unstakeAt |-> IF sameTime THEN last ELSE last + 1])
  /\ UNCHANGED <<stake, processed, chainChanged, pc, req, loc, net, reads, calls, signedMessage,
                 outcome, fn, args, ret, locals>>

\* processPendingActions takes the first request of the queue
ProcessUnstake ==
  /\ pc \in {"idle", "net"}
  /\ processed < Len(unstakeLog)
  /\ LET r == unstakeLog[processed + 1]
     IN  stake' = [stake EXCEPT ![r.contract] = @ - r.amount]
  /\ processed' = processed + 1
  /\ chainChanged' = (pc = "net")
  /\ UNCHANGED <<unstakeLog, pc, req, loc, net, reads, calls, signedMessage,
                 outcome, fn, args, ret, locals>>

(***************************************************************************)
(* getQuote.  Each await is a point where the engine waits for the gateway *)
(* and the chain may move; the code between two awaits is one step.  A     *)
(* read is issued by the step that calls it and answered (or failed) by a  *)
(* later step, which reads the chain as it is then.                        *)
(***************************************************************************)
ETH == <<"E", "T", "H">>

DAI == <<"D", "A", "I">>

\* what callers send
RequestAddresses == {ContractAMixed, NotAnAddress}

RequestAmounts == {<<"7">>}

RequestCurrencies == {ETH, DAI}

RequestPeriods == {<<"2", "9">>, <<"3", "0">>, <<"3", "0", ".", "5">>}

\* new Date().getTime()
Times == {1001}

\* what the gateway answers
DaiRates == {Dec(467, 15)}

TokenPrices == {Dec(172, 14)}

McrValues == {Dec(135, 20), Dec(1, 18)}

PrivateKey == "privateKey"

\* nexusContractLoader.instance('QT').address
QuotationAddress == "quotationAddress"

Issue(r, kind) == [r EXCEPT ![kind] = @ + 1]

Thrown(error) == [type |-> "thrown", error |-> error]

Returned(value) == [type |-> "returned", value |-> value]

NetIdle ==
  [stake |-> "idle", first |-> "idle", events |-> "idle",
   stakedNxmBN |-> 0, headNext |-> 0, firstUnstakeAt |-> 0, unstakeRequests |-> <<>>]

\* getQuote asking for the currency rate before it looks at the validation
GetQuoteFetchFirst(contractAddress, coverAmount, currency, period, now) ==
  /\ pc = "idle"
  /\ req' = [contractAddress |-> contractAddress, coverAmount |-> coverAmount,
             currency |-> currency, period |-> period]
  /\ calls' = Append(calls, "validateQuoteParameters")
  /\ reads' = IF toUpperCase(currency) = DAI THEN Issue(reads, "latestAnswer") ELSE reads
  /\ LET error == validateQuoteParameters(contractAddress, coverAmount, currency, period).error
     IN  IF error # Null
           THEN /\ pc' = "failed"
                /\ outcome' = Thrown([name |-> "Invalid parameters provided",
                                      details |-> error.details])
                /\ UNCHANGED loc
           ELSE /\ pc' = "rate"
                /\ loc' = [upperCasedCurrency |-> toUpperCase(currency),
                           lowerCasedContractAddress |-> toLowerCase(contractAddress),
                           parsedPeriod |-> parseInt(period),
                           amount |-> DecimalOfString(coverAmount),
                           now |-> now,
                           currencyRate |-> Null,
                           nxmPrice |-> Null,
                           netStakedNxm |-> Null]
                /\ UNCHANGED outcome
  /\ UNCHANGED <<stake, unstakeLog, processed, net, signedMessage, chainChanged,
                 fn, args, ret, locals>>

\* lines 295-305: validate, or take the parameters apart and ask for the rate
GetQuote(contractAddress, coverAmount, currency, period, now) ==
  /\ pc = "idle"
  /\ req' = [contractAddress |-> contractAddress, coverAmount |-> coverAmount,
             currency |-> currency, period |-> period]
  /\ calls' = Append(calls, "validateQuoteParameters")
  /\ LET error == validateQuoteParameters(contractAddress, coverAmount, currency, period).error
         upperCasedCurrency == toUpperCase(currency)
     IN  IF error # Null
           THEN /\ pc' = "failed"
                /\ outcome' = Thrown([name |-> "Invalid parameters provided",
                                      details |-> error.details])
                /\ UNCHANGED <<loc, reads>>
           ELSE /\ pc' = "rate"
                /\ loc' = [upperCasedCurrency |-> upperCasedCurrency,
                           lowerCasedContractAddress |-> toLowerCase(contractAddress),
                           parsedPeriod |-> parseInt(period),
                           amount |-> DecimalOfString(coverAmount),
                           now |-> now,
                           currencyRate |-> Null,
                           nxmPrice |-> Null,
                           netStakedNxm |-> Null]
                /\ reads' = IF upperCasedCurrency = DAI
                              THEN Issue(reads, "latestAnswer") ELSE reads
                /\ UNCHANGED outcome
  /\ UNCHANGED <<stake, unstakeLog, processed, net, signedMessage, chainChanged,
                 fn, args, ret, locals>>

\* getCurrencyRate answers: 1e18 for ETH, the Chainlink answer for DAI, an
\* error for anything else; line 306 then asks for the token price
CurrencyRateReturns(daiRate) ==
  /\ pc = "rate"
  /\ IF loc.upperCasedCurrency \in {ETH, DAI}
       THEN /\ loc' = [loc EXCEPT !.currencyRate =
                         IF loc.upperCasedCurrency = ETH THEN E18 ELSE daiRate]
            /\ reads' = Issue(reads, "getTokenPrice")
            /\ pc' = "price"
            /\ UNCHANGED outcome
       ELSE /\ pc' = "failed"
            /\ outcome' = Thrown([name |-> "Unsupported currency"])
            /\ UNCHANGED <<loc, reads>>
  /\ UNCHANGED <<stake, unstakeLog, processed, req, net, calls, signedMessage,
                 chainChanged, fn, args, ret, locals>>

\* a read of the gateway fails: getQuote throws what the read threw
ReadFails(at, kind) ==
  /\ pc = at
  /\ reads[kind] > 0
  /\ pc' = "failed"
  /\ outcome' = Thrown([name |-> "gateway", read |-> kind])
  /\ UNCHANGED <<stake, unstakeLog, processed, req, loc, net, reads, calls,
                 signedMessage, chainChanged, fn, args, ret, locals>>

CurrencyRateFails == pc = "rate" /\ loc.upperCasedCurrency = DAI /\ ReadFails("rate", "latestAnswer")

\* getTokenPrice answers; line 308 calls getNetStakedNxm, whose Promise.all
\* starts its three reads at once
TokenPriceReturns(price) ==
  /\ pc = "price"
  /\ loc' = [loc EXCEPT !.nxmPrice = price]
  /\ reads' = Issue(Issue(Issue(reads, "contractStake"), "unstakeRequests(0)"), "getBlock")
  /\ net' = [NetIdle EXCEPT !.stake = "pending", !.first = "head", !.events = "block"]
  /\ pc' = "net"
  /\ chainChanged' = FALSE
  /\ UNCHANGED <<stake, unstakeLog, processed, req, calls, signedMessage, outcome,
                 fn, args, ret, locals>>

TokenPriceFails == ReadFails("price", "getTokenPrice")

\* lines 75-82: the stake less the requests the filter keeps
netStakedNxmOf(n) ==
  LET stakedNxm == DecimalOfBN(n.stakedNxmBN)
      kept == SelectSeq(n.unstakeRequests, LAMBDA e : e.unstakeAt >= n.firstUnstakeAt)
      totalUnprocessedUnstake == DecimalOfBN(SumAmounts(kept))
  IN  DecSub(stakedNxm, totalUnprocessedUnstake)

\* one of the three reads has moved on to n, having issued the reads r: when
\* all three are in, Promise.all resolves and line 309 asks for the MCR
Resume(n, r) ==
  /\ net' = n
  /\ IF n.stake = "done" /\ n.first = "done" /\ n.events = "done"
       THEN /\ loc' = [loc EXCEPT !.netStakedNxm = netStakedNxmOf(n)]
            /\ reads' = Issue(r, "getLastMCREther")
            /\ pc' = "mcr"
       ELSE /\ reads' = r
            /\ UNCHANGED <<loc, pc>>
  /\ UNCHANGED <<stake, unstakeLog, processed, req, calls, signedMessage, outcome,
                 chainChanged, fn, args, ret, locals>>

ContractStakeReturns ==
  /\ pc = "net"
  /\ net.stake = "pending"
  /\ Resume([net EXCEPT !.stake = "done",
                        !.stakedNxmBN = contractStake(loc.lowerCasedContractAddress)],
            reads)

\* getFirstUnprocessedUnstake: the head pointer, then the entry it points to
HeadPointerReturns ==
  /\ pc = "net"
  /\ net.first = "head"
  /\ Resume([net EXCEPT !.first = "first", !.headNext = headPointer.next],
            Issue(reads, "unstakeRequests(next)"))

FirstUnprocessedReturns ==
  /\ pc = "net"
  /\ net.first = "first"
  /\ Resume([net EXCEPT !.first = "done",
                        !.firstUnstakeAt = unstakeRequestAt(net.headNext).unstakeAt],
            reads)

\* getUnstakeRequests: the latest block, then the events since fromBlock
LatestBlockReturns ==
  /\ pc = "net"
  /\ net.events = "block"
  /\ Resume([net EXCEPT !.events = "events"], Issue(reads, "getPastEvents"))

PastEventsReturns ==
  /\ pc = "net"
  /\ net.events = "events"
  /\ Resume([net EXCEPT !.events = "done",
                        !.unstakeRequests = pastUnstakeEvents(loc.lowerCasedContractAddress)],
            reads)

\* a failed read of getNetStakedNxm caught and issued once more
NetReadFailsRetried(branch, state, kind) ==
  /\ pc = "net"
  /\ net[branch] = state
  /\ reads[kind] < 2
  /\ reads' = Issue(reads, kind)
  /\ UNCHANGED <<stake, unstakeLog, processed, pc, req, loc, net, calls, signedMessage,
                 outcome, chainChanged, fn, args, ret, locals>>

\* one of the reads of getNetStakedNxm fails: Promise.all rejects with the
\* first failure and getQuote throws it; what the other reads answer after
\* that is heard by nobody, and is left out
NetReadFails(branch, state, kind) ==
  /\ pc = "net"
  /\ net[branch] = state
  /\ net' = [net EXCEPT ![branch] = "failed"]
  /\ pc' = "failed"
  /\ outcome' = Thrown([name |-> "gateway", read |-> kind])
  /\ UNCHANGED <<stake, unstakeLog, processed, req, loc, reads, calls, signedMessage,
                 chainChanged, fn, args, ret, locals>>

ContractStakeFails == NetReadFails("stake", "pending", "contractStake")

HeadPointerFails == NetReadFails("first", "head", "unstakeRequests(0)")

FirstUnprocessedFails == NetReadFails("first", "first", "unstakeRequests(next)")

LatestBlockFails == NetReadFails("events", "block", "getBlock")

PastEventsFails == NetReadFails("events", "events", "getPastEvents")

\* lines 311-345, after getLastMcrEth has answered: calculate, sign, return
LastMcrEthReturns(minCapETH, strictBN) ==
  /\ pc = "mcr"
  /\ LET quoteData == calculateQuote(loc.amount, loc.parsedPeriod, loc.upperCasedCurrency,
                                     loc.currencyRate, loc.nxmPrice, loc.netStakedNxm,
                                     minCapETH, loc.now)
         unsignedQuote == [contract |-> loc.lowerCasedContractAddress] @@ quoteData
     IN  /\ calls' = calls \o <<"calculateQuote", "signQuote">>
         /\ reads' = Issue(reads, "QT.address")
         /\ IF SignQuoteThrows(unsignedQuote, strictBN)
              THEN /\ pc' = "failed"
                   /\ outcome' = Thrown([name |-> "TypeError"])
                   /\ UNCHANGED signedMessage
              ELSE /\ pc' = "done"
                   /\ signedMessage' =
                        soliditySHA3Input(orderParts(unsignedQuote, QuotationAddress))
                   /\ outcome' = Returned(signQuote(unsignedQuote, QuotationAddress, PrivateKey)
                                            @@ unsignedQuote)
  /\ UNCHANGED <<stake, unstakeLog, processed, req, loc, net, chainChanged,
                 fn, args, ret, locals>>

LastMcrEthFails == ReadFails("mcr", "getLastMCREther")

Init ==
  /\ stake \in [Contracts -> 0..MaxStake]
  /\ stake["B"] = 1
  /\ unstakeLog = <<>>
  /\ processed = 0
  /\ pc = "idle"
  /\ req = Null
  /\ loc = Null
  /\ net = NetIdle
  /\ reads = [k \in ReadKinds |-> 0]
  /\ calls = <<>>
  /\ signedMessage = <<>>
  /\ outcome = Null
  /\ chainChanged = FALSE
  /\ fn = "none"
  /\ args = Null
  /\ ret = Null
  /\ locals = Null

Next ==
  \/ \E c \in Contracts, a \in 1..MaxStake, sameTime \in BOOLEAN :
       RequestUnstake(c, a, sameTime)
  \/ ProcessUnstake
  \/ \E ca \in RequestAddresses, am \in RequestAmounts, cu \in RequestCurrencies,
        pe \in RequestPeriods, now \in Times : GetQuote(ca, am, cu, pe, now)
  \/ \E rate \in DaiRates : CurrencyRateReturns(rate)
  \/ CurrencyRateFails
  \/ \E price \in TokenPrices : TokenPriceReturns(price)
  \/ TokenPriceFails
  \/ ContractStakeReturns
  \/ ContractStakeFails
  \/ HeadPointerReturns
  \/ HeadPointerFails
  \/ FirstUnprocessedReturns
  \/ FirstUnprocessedFails
  \/ LatestBlockReturns
  \/ LatestBlockFails
  \/ PastEventsReturns
  \/ PastEventsFails
  \/ \E mcr \in McrValues, strictBN \in BOOLEAN : LastMcrEthReturns(mcr, strictBN)
  \/ LastMcrEthFails

Spec == Init /\ [][Next]_vars

(***************************************************************************)
(* The pure functions of the engine, each applied once to arguments drawn  *)
(* from small sets.                                                        *)
(***************************************************************************)
CoverAmounts == {Dec(5, 0), Dec(7, 0), Dec(1000, 0)}

Periods == {30, 45, 90}

\* a currency and a rate in wei for one unit of it
CurrencyRates == {<<ETH, E18>>, <<DAI, Dec(467, 15)>>, <<DAI, Dec(3, 15)>>}

NxmPrices == {Dec(172, 14), Dec(1, 16)}

NetStakes ==
  {Zero, Dec(-1, 21), Dec(1, 21), Dec(6, 21), Dec(1234, 20), Dec(12, 22), Dec(22, 22)}

MinCaps == {Zero, Dec(1, 18), Dec(1003, 19), Dec(135, 20)}

Nows == {0, 1, 999, 1000, 1001}

CallCalculateQuote(amount, period, cr, nxmPrice, netStakedNxm, minCapETH, now) ==
  /\ fn = "none"
  /\ fn' = "calculateQuote"
  /\ args' = [requestedCoverAmount |-> amount, period |-> period, currency |-> cr[1],
              coverCurrencyRate |-> cr[2], nxmPrice |-> nxmPrice,
              netStakedNxm |-> netStakedNxm, minCapETH |-> minCapETH, now |-> now]
  /\ ret' = calculateQuote(amount, period, cr[1], cr[2], nxmPrice, netStakedNxm,
                           minCapETH, now)
  /\ locals' = quoteLocals(amount, period, cr[2], nxmPrice, netStakedNxm, minCapETH)
  /\ UNCHANGED <<chainVars, quoteVars>>

CallCalculateCapacity(stakedNxm, nxmPriceEth, minCapETH) ==
  /\ fn = "none"
  /\ fn' = "calculateCapacity"
  /\ args' = [stakedNxm |-> stakedNxm, nxmPriceEth |-> nxmPriceEth, minCapETH |-> minCapETH]
  /\ ret' = calculateCapacity(stakedNxm, nxmPriceEth, minCapETH)
  /\ UNCHANGED <<locals, chainVars, quoteVars>>

CallCalculatePrice(coverAmount, risk, coverPeriod) ==
  /\ fn = "none"
  /\ fn' = "calculatePrice"
  /\ args' = [coverAmount |-> coverAmount, risk |-> risk,
              surplusMargin |-> COVER_PRICE_SURPLUS_MARGIN, coverPeriod |-> coverPeriod]
  /\ ret' = calculatePrice(coverAmount, risk, COVER_PRICE_SURPLUS_MARGIN, coverPeriod)
  /\ UNCHANGED <<locals, chainVars, quoteVars>>

\* the stakes calculateRisk is applied to: those above, and 1 wei, the low risk
\* limit of 200000 NXM and its neighbours
RiskStakes ==
  NetStakes \cup {Dec(1, 0), Dec(3, 18), Dec(199, 21), Dec(2, 23), Dec(201, 21), Dec(1, 30)}

CallCalculateRisk(netStakedNxm) ==
  /\ fn = "none"
  /\ fn' = "calculateRisk"
  /\ args' = [netStakedNxm |-> netStakedNxm]
  /\ ret' = calculateRisk(netStakedNxm)
  /\ UNCHANGED <<locals, chainVars, quoteVars>>

ValidatedAddresses == {ContractA, ContractAMixed, NotAnAddress}

ValidatedAmounts == {<<"7">>, <<"0">>, <<"1", "0", "0", "0">>, <<"a">>, <<"1", ".", "5">>, <<>>}

ValidatedCurrencies == {ETH, DAI, <<"e", "t", "h">>, <<"B", "T", "C">>}

ValidatedPeriods ==
  {<<"2", "9">>, <<"3", "0">>, <<"3", "0", ".", "5">>, <<"3", "6", "5">>,
   <<"3", "6", "6">>, <<"a">>, <<>>}

CallValidateQuoteParameters(contractAddress, coverAmount, currency, period) ==
  /\ fn = "none"
  /\ fn' = "validateQuoteParameters"
  /\ args' = [contractAddress |-> contractAddress, coverAmount |-> coverAmount,
              currency |-> currency, period |-> period]
  /\ ret' = validateQuoteParameters(contractAddress, coverAmount, currency, period)
  /\ UNCHANGED <<locals, chainVars, quoteVars>>

NextCalc ==
  \/ \E amount \in CoverAmounts, period \in Periods, cr \in CurrencyRates,
        nxmPrice \in NxmPrices, netStakedNxm \in NetStakes, minCapETH \in MinCaps,
        now \in Nows :
       CallCalculateQuote(amount, period, cr, nxmPrice, netStakedNxm, minCapETH, now)
  \/ \E stakedNxm \in NetStakes, nxmPriceEth \in NxmPrices, minCapETH \in MinCaps :
       CallCalculateCapacity(stakedNxm, nxmPriceEth, minCapETH)
  \/ \E coverAmount \in {Dec(234, 16), Dec(27, 20)}, risk \in {One, Dec(71, -1)},
        coverPeriod \in Periods :
       CallCalculatePrice(coverAmount, risk, coverPeriod)
  \/ \E netStakedNxm \in RiskStakes : CallCalculateRisk(netStakedNxm)
  \/ \E contractAddress \in ValidatedAddresses, coverAmount \in ValidatedAmounts,
        currency \in ValidatedCurrencies, period \in ValidatedPeriods :
       CallValidateQuoteParameters(contractAddress, coverAmount, currency, period)

InitCalc == Init /\ stake["A"] = 0

SpecCalc == InitCalc /\ [][NextCalc]_vars

(***************************************************************************)
(* The properties.                                                         *)
(***************************************************************************)
InCalls(f) == \E i \in 1..Len(calls) : calls[i] = f

UncoverableQuote(now) ==
  [error |-> "Uncoverable", generatedAt |-> now, expiresAt |-> ExpiresAt(now)]

\* C1: a valid request whose fetched net staked collateral is zero is never
\* signed: getQuote does not call signQuote and returns exactly the
\* uncoverable quote { error, generatedAt, expiresAt }, without throwing.
C1_UncoverableReturnedUnsigned ==
  (InCalls("calculateQuote") /\ loc.netStakedNxm = Zero) =>
    /\ ~InCalls("signQuote")
    /\ outcome = Returned(UncoverableQuote(loc.now))

\* n is ceil(generatedAt / 1000 + 3600)
IsExpiryOf(n, generatedAt) ==
  /\ n * 1000 >= generatedAt + 3600 * 1000
  /\ (n - 1) * 1000 < generatedAt + 3600 * 1000

\* C2: calculateQuote returns the uncoverable result (the error tag, generatedAt
\* = now, expiresAt = ceil(generatedAt/1000 + 3600), no pricing field) if and
\* only if netStakedNxm is 0; for every other netStakedNxm it returns the
\* coverable shape, which has no error field.
C2_UncoverableIffZeroStake ==
  fn = "calculateQuote" =>
    /\ ("error" \in DOMAIN ret) <=> (args.netStakedNxm = Zero)
    /\ args.netStakedNxm = Zero =>
         /\ DOMAIN ret = {"error", "generatedAt", "expiresAt"}
         /\ ret.error = "Uncoverable"
         /\ ret.generatedAt = args.now
         /\ IsExpiryOf(ret.expiresAt, ret.generatedAt)
    /\ args.netStakedNxm # Zero =>
         DOMAIN ret = {"currency", "period", "amount", "price", "priceInNXM",
                       "expiresAt", "generatedAt"}

C2_Witness ==
  /\ fn = "calculateQuote"
  /\ args.netStakedNxm = Zero
  /\ ret = UncoverableQuote(args.now)

PositiveQuoteInputs ==
  /\ DecGt(args.requestedCoverAmount, Zero)
  /\ DecGt(args.coverCurrencyRate, Zero)
  /\ DecGt(args.nxmPrice, Zero)
  /\ DecGt(args.netStakedNxm, Zero)
  /\ DecLte(Zero, args.minCapETH)

\* C3: for a coverable quote from positive amount, rate, token price and net
\* stake and a non-negative minimum capital, offered <= requested and offered *
\* rate <= calculateCapacity(...); the offered amount is the requested amount
\* when requested * rate <= capacity, and capacity / rate otherwise.  The
\* products are taken exactly.
C3_OfferedWithinRequestAndCapacity ==
  (fn = "calculateQuote" /\ PositiveQuoteInputs) =>
    LET capacity == calculateCapacity(args.netStakedNxm, args.nxmPrice, args.minCapETH)
        requestedInWei == ExactMul(args.requestedCoverAmount, args.coverCurrencyRate)
        offeredInWei == ExactMul(ret.amount, args.coverCurrencyRate)
    IN  /\ DecLte(ret.amount, args.requestedCoverAmount)
        /\ DecLte(offeredInWei, capacity)
        /\ DecLte(requestedInWei, capacity) => ret.amount = args.requestedCoverAmount
        /\ ~DecLte(requestedInWei, capacity) =>
             ret.amount = DecDiv(capacity, args.coverCurrencyRate)

\* C4: the wei price of a coverable quote is A * R / 100 * (1 + 0.3) * d / 365.25
\* with A = min(capacity, requested * rate), R = calculateRisk(netStakedNxm) and
\* d the period; it is not negative, and twice the period gives exactly twice
\* the price.  Stated here for the quotes of a positive net stake, and with
\* the formula cleared of its divisions: price * 36525 = A * R * 1.3 * d.
C4_PriceFormulaAndLinearInPeriod ==
  (fn = "calculateQuote" /\ PositiveQuoteInputs) =>
    LET A == min(calculateCapacity(args.netStakedNxm, args.nxmPrice, args.minCapETH),
                 DecMul(args.requestedCoverAmount, args.coverCurrencyRate))
        R == calculateRisk(args.netStakedNxm)
        price == locals.quotePriceInWei
        twice == quoteLocals(args.requestedCoverAmount, 2 * args.period,
                             args.coverCurrencyRate, args.nxmPrice,
                             args.netStakedNxm, args.minCapETH).quotePriceInWei
    IN  /\ ExactMul(price, Dec(36525, 0))
             = ExactMul(ExactMul(ExactMul(A, R), Dec(13, -1)), Dec(args.period, 0))
        /\ DecLte(Zero, price)
        /\ twice = ExactMul(Dec(2, 0), price)

\* the types and the bytes of the nine fields, in order
SignedTypes ==
  <<"uint256", "bytes4", "uint16", "address", "uint256", "uint256", "uint256",
    "uint256", "address">>

SignedBytes == <<32, 4, 2, 20, 32, 32, 32, 32, 20>>

AsciiBytes4(currency) ==
  IF currency = ETH THEN <<69, 84, 72, 0>>
  ELSE IF currency = DAI THEN <<68, 65, 73, 0>>
  ELSE <<>>

\* C5: the message signQuote hashes is the tight packing of exactly nine
\* fields, in this order and of these types: amount (uint256), currency
\* (bytes4, its ASCII code), period (uint16), contract (address), price
\* (uint256), priceInNXM (uint256), expiresAt (uint256), generatedAt (uint256),
\* verifying contract (address), the last.
C5_SignedFieldsInOrder ==
  signedMessage # <<>> =>
    LET q == outcome.value
    IN  /\ Len(signedMessage) = 9
        /\ [i \in 1..9 |-> signedMessage[i].type] = SignedTypes
        /\ [i \in 1..9 |-> signedMessage[i].bytes] = SignedBytes
        /\ [i \in 1..9 |-> signedMessage[i].value]
             = << decimalToBN(q.amount), AsciiBytes4(q.currency), q.period, q.contract,
                  decimalToBN(q.price), decimalToBN(q.priceInNXM), q.expiresAt,
                  q.generatedAt, QuotationAddress >>

C5_Witness ==
  /\ pc = "done"
  /\ Len(signedMessage) = 9
  /\ outcome.value.currency = DAI
  /\ signedMessage[2].value = <<68, 65, 73, 0>>

\* C6: when a request violates more than one constraint, the error of
\* validateQuoteParameters lists every violated constraint, not only the first.
C6_ValidationListsEveryViolation ==
  (fn = "validateQuoteParameters" /\ ret.error # Null) =>
    ret.error.details
      = Violations(args.contractAddress, args.coverAmount, args.currency, args.period)

\* C7: a request that validateQuoteParameters rejects makes getQuote fail with
\* the validation error before any read of the gateway is issued and before
\* calculateQuote or signQuote is called.
C7_ValidationBeforeAnyRead ==
  (req # Null
   /\ validateQuoteParameters(req.contractAddress, req.coverAmount, req.currency,
                              req.period).error # Null) =>
    /\ pc = "failed"
    /\ outcome.type = "thrown"
    /\ outcome.error.name = "Invalid parameters provided"
    /\ \A k \in ReadKinds : reads[k] = 0
    /\ calls = <<"validateQuoteParameters">>

C7_Witness ==
  /\ pc = "failed"
  /\ outcome.error.name = "Invalid parameters provided"
  /\ req.currency = DAI
  /\ req.contractAddress = NotAnAddress

\* C8: when a read of the gateway fails, getQuote fails with that failure; no
\* read is issued more than once, and neither calculateQuote nor signQuote is
\* called for the request: no quote is returned.
C8_ReadFailureSurfacesUnretried ==
  /\ \A k \in ReadKinds : reads[k] <= 1
  /\ (net.stake = "failed" \/ net.first = "failed" \/ net.events = "failed") =>
       /\ pc = "failed"
       /\ outcome.type = "thrown"
       /\ outcome.error.name = "gateway"
  /\ (outcome # Null /\ outcome.type = "thrown" /\ outcome.error.name = "gateway") =>
       /\ pc = "failed"
       /\ reads[outcome.error.read] = 1
       /\ ~InCalls("calculateQuote")
       /\ ~InCalls("signQuote")

C8_Witness ==
  /\ pc = "failed"
  /\ net.first = "failed"
  /\ outcome.error.name = "gateway"
  /\ outcome.error.read = "unstakeRequests(next)"

\* C9: on a chain that does not change during the call, getNetStakedNxm returns
\* the contract's stake less exactly its unstake requests still pending;
\* processed requests are not subtracted.
C9_NetStakeIsStakeLessPending ==
  (pc = "mcr" /\ ~chainChanged) =>
    loc.netStakedNxm = DecimalOfBN(TrueNetStaked(loc.lowerCasedContractAddress))

\* C10: calculateCapacity(S, P, M) = min(S * P / 1e18, M * 0.2) for non-negative
\* S, P, M, is never above 20% of M, and is zero when S is zero.  The products
\* are taken exactly.
C10_CapacityIsExactMin ==
  (fn = "calculateCapacity"
   /\ DecLte(Zero, args.stakedNxm) /\ DecLte(Zero, args.nxmPriceEth)
   /\ DecLte(Zero, args.minCapETH)) =>
    LET product == ExactMul(args.stakedNxm, args.nxmPriceEth)
        stakedValue == Norm(product.m, product.e - 18)
        limit == ExactMul(args.minCapETH, Dec(2, -1))
    IN  /\ ret = (IF Cmp(stakedValue, limit) < 0 THEN stakedValue ELSE limit)
        /\ DecLte(ret, limit)
        /\ args.stakedNxm = Zero => ret = Zero

\* C11: for every net stake S > 0, calculateRisk(S) lies in [1, 100]; the risk
\* does not increase with the stake (S <= S2 implies risk(S) >= risk(S2)); and
\* from 200000e18 on the risk is exactly 1.
C11_RiskBoundedAndNonIncreasing ==
  (fn = "calculateRisk" /\ DecGt(args.netStakedNxm, Zero)) =>
    /\ DecLte(One, ret)
    /\ DecLte(ret, Dec(100, 0))
    /\ \A S2 \in RiskStakes :
         DecLte(args.netStakedNxm, S2) => DecLte(calculateRisk(S2), ret)
    /\ DecLte(Dec(200000, 18), args.netStakedNxm) => ret = One

C11_Witness ==
  /\ fn = "calculateRisk"
  /\ args.netStakedNxm = Dec(12, 22)
  /\ DecLt(One, ret)
  /\ DecLt(ret, calculateRisk(Dec(6, 21)))
  /\ calculateRisk(Dec(2, 23)) = One

\* C12: for every generation time in milliseconds, the coverable and the
\* uncoverable result of calculateQuote both carry generatedAt = now.getTime()
\* and expiresAt = ceil(generatedAt / 1000 + 3600); the ceiling being unique,
\* the timestamps are a function of now and of nothing else.
C12_TimestampsFromNowAlone ==
  fn = "calculateQuote" =>
    /\ ret.generatedAt = args.now
    /\ (ret.expiresAt - 3600) * 1000 >= args.now
    /\ (ret.expiresAt - 3600 - 1) * 1000 < args.now

C12_Witness ==
  /\ fn = "calculateQuote"
  /\ "error" \notin DOMAIN ret
  /\ args.now = 1001
  /\ ret.generatedAt = 1001
  /\ ret.expiresAt = 3602

\* C13: validateQuoteParameters accepts a request only if the cover amount is
\* a digit string denoting an integer greater than zero, the currency is ETH
\* or DAI and the period is a number from 30 to 365; a cover amount of zero,
\* an unsupported currency and a period below 30 or above 365 are rejected.
C13_AcceptedRequestsAreWellFormed ==
  (fn = "validateQuoteParameters" /\ ret.error = Null) =>
    /\ IsDigitString(args.coverAmount)
    /\ DigitsValue(args.coverAmount, Len(args.coverAmount)) > 0
    /\ args.currency \in {ETH, DAI}
    /\ ~IsNaN(JoiNumber(args.period))
    /\ DecLte(Dec(30, 0), JoiNumber(args.period))
    /\ DecLte(JoiNumber(args.period), Dec(365, 0))

\* C14: the coverable quote echoes the request's period and currency:
\* calculateQuote returns the period and the currency it is given, and the
\* quote getQuote returns for an accepted request has the requested currency
\* and a period equal in value to the requested period.
C14_PeriodAndCurrencyEchoed ==
  pc = "done" =>
    LET q == outcome.value
    IN  /\ q.period = loc.parsedPeriod
        /\ q.currency = loc.upperCasedCurrency
        /\ q.currency = req.currency
        /\ Dec(q.period, 0) = JoiNumber(req.period)

\* C15: for every coverable quote getQuote returns, the amount, the price and
\* the priceInNXM encoded into the signed message equal the amount, the price
\* and the priceInNXM of the returned quote, whole numbers or not.
C15_SignedValuesAreReturnedValues ==
  pc = "done" =>
    LET q == outcome.value
    IN  /\ signedMessage[1].value = q.amount
        /\ signedMessage[5].value = q.price
        /\ signedMessage[6].value = q.priceInNXM

\* what getNetStakedNxm returns when its three reads see the chain as it is now
SnapshotNetStaked(contractAddress) ==
  netStakedNxmOf([stakedNxmBN |-> contractStake(contractAddress),
                  firstUnstakeAt |-> unstakeRequestAt(headPointer.next).unstakeAt,
                  unstakeRequests |-> pastUnstakeEvents(contractAddress)])

\* C16: when pending unstake requests are processed while getNetStakedNxm's
\* three reads are under way, the net stake it returns is not negative and
\* not below the net stake (stake less pending requests) of any chain state
\* of the call.  Processing a request lowers the stake and the pending total
\* by the same amount, so every chain state of the call has the net stake of
\* the last one.  Stated for the calls whose chain, read in one snapshot at
\* the end, gives that net stake: what fails here fails by the interleaving.
C16_NetStakeNotBelowChainUnderRaces ==
  (/\ pc = "mcr"
   /\ chainChanged
   /\ SnapshotNetStaked(loc.lowerCasedContractAddress)
        = DecimalOfBN(TrueNetStaked(loc.lowerCasedContractAddress))) =>
    /\ DecLte(Zero, loc.netStakedNxm)
    /\ DecLte(DecimalOfBN(TrueNetStaked(loc.lowerCasedContractAddress)), loc.netStakedNxm)
=============================================================================
